---- MODULE Spec2Model ----
(***************************************************************************)
(* argparse-cxx: a command tree (argparse::command / argparse::parser)     *)
(* with optional flag/value/list specs, required value/list specs and      *)
(* subcommands, and the token-consuming parse over an argument vector.     *)
(*                                                                         *)
(* Tokens, long flag names and command names are sequences of one-char     *)
(* strings, so that the dash prefixes and the characters of a short-flag   *)
(* group are inspected as the program inspects them.                       *)
(*                                                                         *)
(* argparse.hxx defines the specs' takes()/parse(), the registration       *)
(* templates and the getters.  command::parse, parser::parse,              *)
(* optional_flag and add_command are only declared there; they are         *)
(* modelled from the specification of the parsing engine.                  *)
(*                                                                         *)
(* add_req_value<T> and add_req_list<T>(name, description) return the      *)
(* void result of add_required_arg as a reference: no program that calls   *)
(* them can be built.  Required specs enter a tree through the private     *)
(* add_required_arg itself, which is well-formed and open to the friend    *)
(* class the header names.                                                 *)
(***************************************************************************)
EXTENDS Integers, Sequences, FiniteSets, TLC

(***************************************************************************)
(* Bounds of the model                                                     *)
(***************************************************************************)
\* length of the command line of the one parser::parse call of Spec
MaxArgs == 3
\* SpecRe: number of parser::parse calls made on one tree
MaxParses == 2
\* SpecRe: total number of tokens handed to those calls
MaxReArgs == 4

(***************************************************************************)
(* Input alphabets                                                         *)
(***************************************************************************)
Root == <<"a", "p", "p">>
Run == <<"r", "u", "n">>
CmdNames == {Run}
Cmds == {Root} \cup CmdNames

LongVb == <<"v", "b">>
LongOt == <<"o", "t">>
Shorts == {"v", "o"}
Longs == {LongVb, LongOt}
Names == {"x", "y"}

TokV == <<"-", "v">>
TokVV == <<"-", "v", "v">>
TokVO == <<"-", "v", "o">>
TokO == <<"-", "o">>
TokOt == <<"-", "-", "o", "t">>
TokA == <<"a">>

\* the argument tokens a command line of Spec is made of
Tokens == {TokV, TokVV, TokVO, TokO, TokOt, TokA, Run}

\* the argument tokens a command line of SpecRe is made of
ReTokens == {TokO, TokOt, TokA, Run}

RECURSIVE SeqsUpTo(_, _)
SeqsUpTo(S, n) ==
  IF n <= 0 THEN {<<>>}
  ELSE LET shorter == SeqsUpTo(S, n - 1)
       IN shorter \cup {Append(s, t) : s \in shorter, t \in S}

(***************************************************************************)
(* State                                                                   *)
(***************************************************************************)
VARIABLES
  _optional,   \* command -> its optional specs, in registration order
  _required,   \* command -> its required specs, in declared order
  _commands,   \* the subcommand names registered on the root, in order
  pc,          \* "build", "aborted" (a registration threw), "ill_formed" (the
               \* program holds a call that cannot be instantiated), "parsing",
               \* "done"
  argv,        \* the tokens of the running (or last) parser::parse call
  pos,         \* index in argv of the first token of the remaining window
  cur,         \* the command whose parse is running
  nreq,        \* number of required specs of cur satisfied in this invocation
  err,         \* the error signalled, "none" when there is none
  ret,         \* result of parser::parse: "true" or "false", "none" before it returns
  used,        \* tokens handed to parser::parse so far
  parses,      \* parser::parse calls started so far
  call         \* the last call made on the tree, with its arguments

vars == <<_optional, _required, _commands, pc, argv, pos, cur, nreq, err, ret,
          used, parses, call>>

Call(api, c, s, l, n) == [api |-> api, cmd |-> c, short |-> s, long |-> l, name |-> n]

(***************************************************************************)
(* Spec objects                                                            *)
(***************************************************************************)
\* optional_flag / optional_value<T> / optional_list<T> after construction
NewOptional(kind, s, l) ==
  [kind |-> kind, short |-> s, long |-> l,
   cnt |-> 0, flag |-> FALSE, value |-> <<>>, values |-> <<>>]

\* required_value<T> / required_list<T> after construction
NewRequired(kind, n) ==
  [kind |-> kind, name |-> n, value |-> <<>>, values |-> <<>>]

(***************************************************************************)
(* Registration                                                            *)
(***************************************************************************)
\* mutant: the duplicate check looks at the short flag alone
add_optional_arg_short_only(opts, kind, s, l) ==
  IF \E i \in 1..Len(opts) : opts[i].short = s
  THEN [thrown |-> TRUE, list |-> opts]
  ELSE [thrown |-> FALSE, list |-> Append(opts, NewOptional(kind, s, l))]

\* command::add_optional_arg on the _optional vector opts: the vector
\* afterwards and whether std::runtime_error was thrown
add_optional_arg(opts, kind, s, l) ==
  IF \E i \in 1..Len(opts) : opts[i].short = s \/ opts[i].long = l
  THEN [thrown |-> TRUE, list |-> opts]
  ELSE [thrown |-> FALSE, list |-> Append(opts, NewOptional(kind, s, l))]

\* mutant: a second unbounded list is refused
add_required_arg_one_list(reqs, kind, n) ==
  IF \/ \E i \in 1..Len(reqs) : n = reqs[i].name
     \/ kind = "list" /\ \E i \in 1..Len(reqs) : reqs[i].kind = "list"
  THEN [thrown |-> TRUE, list |-> reqs]
  ELSE [thrown |-> FALSE, list |-> Append(reqs, NewRequired(kind, n))]

\* mutant: the new spec is put in front of the declared ones
add_required_arg_front(reqs, kind, n) ==
  IF \E i \in 1..Len(reqs) : n = reqs[i].name
  THEN [thrown |-> TRUE, list |-> reqs]
  ELSE [thrown |-> FALSE, list |-> <<NewRequired(kind, n)>> \o reqs]

\* command::add_required_arg on the _required vector reqs
add_required_arg(reqs, kind, n) ==
  IF \E i \in 1..Len(reqs) : n = reqs[i].name
  THEN [thrown |-> TRUE, list |-> reqs]
  ELSE [thrown |-> FALSE, list |-> Append(reqs, NewRequired(kind, n))]

\* the command c is the root or a registered subcommand
Exists(c) == c = Root \/ \E i \in 1..Len(_commands) : _commands[i] = c

RegisterOptional(api, c, kind, s, l) ==
  /\ pc = "build"
  /\ Exists(c)
  /\ LET r == add_optional_arg(_optional[c], kind, s, l)
     IN /\ _optional' = [_optional EXCEPT ![c] = r.list]
        /\ pc' = IF r.thrown THEN "aborted" ELSE "build"
        /\ err' = IF r.thrown THEN "DuplicateArgument" ELSE err
  /\ call' = Call(api, c, s, l, "")
  /\ UNCHANGED <<_required, _commands, argv, pos, cur, nreq, ret, used, parses>>

RegisterRequired(api, c, kind, n) ==
  /\ pc = "build"
  /\ Exists(c)
  /\ LET r == add_required_arg(_required[c], kind, n)
     IN /\ _required' = [_required EXCEPT ![c] = r.list]
        /\ pc' = IF r.thrown THEN "aborted" ELSE "build"
        /\ err' = IF r.thrown THEN "DuplicateArgument" ELSE err
  /\ call' = Call(api, c, "", <<>>, n)
  /\ UNCHANGED <<_optional, _commands, argv, pos, cur, nreq, ret, used, parses>>

add_opt_flag(c, s, l) == RegisterOptional("add_opt_flag", c, "flag", s, l)
add_opt_value(c, s, l) == RegisterOptional("add_opt_value", c, "value", s, l)
add_opt_list(c, s, l) == RegisterOptional("add_opt_list", c, "list", s, l)
\* add_required_arg<required_value<T>> and add_required_arg<required_list<T>>,
\* called directly
AddRequiredValue(c, n) == RegisterRequired("add_required_arg<required_value>", c, "value", n)
AddRequiredList(c, n) == RegisterRequired("add_required_arg<required_list>", c, "list", n)

\* a call whose instantiation is ill-formed: there is no program, nothing is
\* registered and nothing is thrown
IllFormed(api, c, n) ==
  /\ pc = "build"
  /\ Exists(c)
  /\ pc' = "ill_formed"
  /\ call' = Call(api, c, "", <<>>, n)
  /\ UNCHANGED <<_optional, _required, _commands, argv, pos, cur, nreq, err, ret,
                 used, parses>>

\* add_req_value<T>(name, description) and add_req_list<T>(name, description):
\* "return add_required_arg<...>(...)", a void, as optional_value<T> const & and
\* optional_list<T> const &
add_req_value(c, n) == IllFormed("add_req_value", c, n)
add_req_list(c, n) == IllFormed("add_req_list", c, n)
\* the three-argument overload of add_req_list registers an optional list
add_req_list_flag(c, s, l) == RegisterOptional("add_req_list_flag", c, "list", s, l)

\* command::add_command on the root
add_command(n) ==
  /\ pc = "build"
  /\ IF \E i \in 1..Len(_commands) : _commands[i] = n
     THEN /\ pc' = "aborted"
          /\ err' = "DuplicateArgument"
          /\ UNCHANGED _commands
     ELSE /\ _commands' = Append(_commands, n)
          /\ UNCHANGED <<pc, err>>
  /\ call' = Call("add_command", Root, "", n, "")
  /\ UNCHANGED <<_optional, _required, argv, pos, cur, nreq, ret, used, parses>>

Init ==
  /\ _optional = [c \in Cmds |-> <<>>]
  /\ _required = [c \in Cmds |-> <<>>]
  /\ _commands = <<>>
  /\ pc = "build"
  /\ argv = <<>>
  /\ pos = 1
  /\ cur = Root
  /\ nreq = 0
  /\ err = "none"
  /\ ret = "none"
  /\ used = 0
  /\ parses = 0
  /\ call = Call("parser", Root, "", <<>>, "")

(***************************************************************************)
(* Token classification                                                    *)
(***************************************************************************)
\* a long flag begins with the two-dash prefix
IsLong(tok) == Len(tok) >= 2 /\ tok[1] = "-" /\ tok[2] = "-"

\* a short flag or short-flag group begins with one dash and is not the lone dash
IsShort(tok) == Len(tok) >= 2 /\ tok[1] = "-" /\ tok[2] # "-"

IsFlagToken(tok) == IsLong(tok) \/ IsShort(tok)

\* number of tokens of av from index from on that come before the next flag
\* token or the end of av
RECURSIVE RunLen(_, _)
RunLen(av, from) ==
  IF from > Len(av) \/ IsFlagToken(av[from]) THEN 0 ELSE 1 + RunLen(av, from + 1)

Min(a, b) == IF a <= b THEN a ELSE b

(***************************************************************************)
(* Value conversion                                                        *)
(***************************************************************************)
\* argparse::parse<std::string>: the text of the token, verbatim
parse_string(tok) == tok

\* the converted values of the tokens of a window, in order
Converted(win) == [i \in 1..Len(win) |-> parse_string(win[i])]

(***************************************************************************)
(* takes() and parse() of the specs.  parse takes the window (argv, len)   *)
(* as a sequence and gives the returned int and the spec as it is          *)
(* afterwards.                                                             *)
(***************************************************************************)
\* std::numeric_limits<size_t>::max(), the arity of a list: size_t(-1)
Unbounded == -1

optional_flag_takes == 0

\* mutant: a value spec answers with the arity of a flag
optional_value_takes_none == optional_flag_takes

optional_value_takes == 1
optional_list_takes == Unbounded
required_value_takes == 1
required_list_takes == Unbounded

\* mutant: the occurrence is recorded but not counted
optional_flag_parse_no_count(o, win) ==
  [ret |-> 0, spec |-> [o EXCEPT !.flag = TRUE]]

optional_flag_parse(o, win) ==
  [ret |-> 0, spec |-> [o EXCEPT !.cnt = @ + 1, !.flag = TRUE]]

\* mutant: the value is stored and no token is reported as consumed
optional_value_parse_ret0(o, win) ==
  IF Len(win) < 1
  THEN [ret |-> -1, spec |-> o]
  ELSE [ret |-> 0, spec |-> [o EXCEPT !.value = <<parse_string(win[1])>>]]

optional_value_parse(o, win) ==
  IF Len(win) < 1
  THEN [ret |-> -1, spec |-> o]
  ELSE [ret |-> 1, spec |-> [o EXCEPT !.value = <<parse_string(win[1])>>]]

\* mutant: the list is assigned instead of appended to
optional_list_parse_assign(o, win) ==
  IF Len(win) < 1
  THEN [ret |-> -1, spec |-> o]
  ELSE [ret |-> Len(win), spec |-> [o EXCEPT !.values = Converted(win)]]

optional_list_parse(o, win) ==
  IF Len(win) < 1
  THEN [ret |-> -1, spec |-> o]
  ELSE [ret |-> Len(win), spec |-> [o EXCEPT !.values = @ \o Converted(win)]]

\* mutant: one token is reported as consumed and nothing is stored
required_value_parse_no_store(r, win) ==
  IF Len(win) < 1
  THEN [ret |-> -1, spec |-> r]
  ELSE [ret |-> 1, spec |-> r]

required_value_parse(r, win) ==
  IF Len(win) < 1
  THEN [ret |-> -1, spec |-> r]
  ELSE [ret |-> 1, spec |-> [r EXCEPT !.value = <<parse_string(win[1])>>]]

\* mutant: the loop stops after the first token of the window
required_list_parse_first_only(r, win) ==
  IF Len(win) < 1
  THEN [ret |-> -1, spec |-> r]
  ELSE [ret |-> Len(win), spec |-> [r EXCEPT !.values = @ \o Converted(<<win[1]>>)]]

\* mutant: the tokens are counted and none is stored
required_list_parse_no_store(r, win) ==
  IF Len(win) < 1
  THEN [ret |-> -1, spec |-> r]
  ELSE [ret |-> Len(win), spec |-> r]

required_list_parse(r, win) ==
  IF Len(win) < 1
  THEN [ret |-> -1, spec |-> r]
  ELSE [ret |-> Len(win), spec |-> [r EXCEPT !.values = @ \o Converted(win)]]

\* the virtual calls optional::takes / optional::parse
optional_takes(o) ==
  CASE o.kind = "flag" -> optional_flag_takes
    [] o.kind = "value" -> optional_value_takes
    [] o.kind = "list" -> optional_list_takes

optional_parse(o, win) ==
  CASE o.kind = "flag" -> optional_flag_parse(o, win)
    [] o.kind = "value" -> optional_value_parse(o, win)
    [] o.kind = "list" -> optional_list_parse(o, win)

\* the virtual calls argument::takes / argument::parse
required_takes(r) ==
  CASE r.kind = "value" -> required_value_takes
    [] r.kind = "list" -> required_list_takes

required_parse(r, win) ==
  CASE r.kind = "value" -> required_value_parse(r, win)
    [] r.kind = "list" -> required_list_parse(r, win)

\* getters
cnt(o) == o.cnt
is_set(o) == o.flag
get_value(s) == s.value
get_values(s) == s.values

(***************************************************************************)
(* command::parse: one action per token-handling step of its loop          *)
(***************************************************************************)
\* the window a spec of arity takes is handed when the remaining tokens start
\* at index from: an unbounded spec gets the tokens before the next flag token
Window(av, from, takes) ==
  LET n == IF takes = Unbounded THEN RunLen(av, from)
           ELSE Min(takes, Len(av) - from + 1)
  IN SubSeq(av, from, from + n - 1)

\* index in opts of the spec with long name l, 0 when there is none
FindLong(opts, l) ==
  IF \E i \in 1..Len(opts) : opts[i].long = l
  THEN CHOOSE i \in 1..Len(opts) : opts[i].long = l
  ELSE 0

\* index in opts of the spec with short flag ch, 0 when there is none
FindShort(opts, ch) ==
  IF \E i \in 1..Len(opts) : opts[i].short = ch
  THEN CHOOSE i \in 1..Len(opts) : opts[i].short = ch
  ELSE 0

\* a hard error ends the parse; parser::parse folds it to false
Fail(kind) ==
  /\ pc' = "done"
  /\ err' = kind
  /\ ret' = "false"

\* the matched optional spec i consumes from the window after the flag token
Delegate(i) ==
  LET o == _optional[cur][i]
      r == optional_parse(o, Window(argv, pos + 1, optional_takes(o)))
  IN IF r.ret < 0
     THEN Fail("MissingValue") /\ UNCHANGED <<_optional, pos>>
     ELSE /\ _optional' = [_optional EXCEPT ![cur][i] = r.spec]
          /\ pos' = pos + 1 + r.ret
          /\ UNCHANGED <<pc, err, ret>>

\* every character of a group of flags is counted once, left to right
RECURSIVE CountGroup(_, _)
CountGroup(opts, chars) ==
  IF chars = <<>> THEN opts
  ELSE LET i == FindShort(opts, Head(chars))
       IN CountGroup([opts EXCEPT ![i] = optional_flag_parse(opts[i], <<>>).spec],
                     Tail(chars))

Parsing == pc = "parsing" /\ pos <= Len(argv)

ParseLong ==
  /\ Parsing
  /\ IsLong(argv[pos])
  /\ LET i == FindLong(_optional[cur], SubSeq(argv[pos], 3, Len(argv[pos])))
     IN IF i = 0
        THEN Fail("UnknownOption") /\ UNCHANGED <<_optional, pos>>
        ELSE Delegate(i)
  /\ UNCHANGED <<_required, _commands, argv, cur, nreq, used, parses, call>>

ParseShort ==
  /\ Parsing
  /\ IsShort(argv[pos])
  /\ LET chars == Tail(argv[pos])
         opts == _optional[cur]
     IN IF \E k \in 1..Len(chars) : FindShort(opts, chars[k]) = 0
        THEN Fail("UnknownOption") /\ UNCHANGED <<_optional, pos>>
        ELSE IF Len(chars) = 1
        THEN Delegate(FindShort(opts, chars[1]))
        ELSE IF \E k \in 1..Len(chars) :
                  optional_takes(opts[FindShort(opts, chars[k])]) # 0
        THEN Fail("AmbiguousShortGroup") /\ UNCHANGED <<_optional, pos>>
        ELSE /\ _optional' = [_optional EXCEPT ![cur] = CountGroup(opts, chars)]
             /\ pos' = pos + 1
             /\ UNCHANGED <<pc, err, ret>>
  /\ UNCHANGED <<_required, _commands, argv, cur, nreq, used, parses, call>>

\* a non-flag token while a required spec of cur is still unsatisfied: the
\* first such spec consumes, stopping before the next flag token
ParsePositional ==
  /\ Parsing
  /\ ~IsFlagToken(argv[pos])
  /\ nreq < Len(_required[cur])
  /\ LET q == _required[cur][nreq + 1]
         n == Min(RunLen(argv, pos), Len(Window(argv, pos, required_takes(q))))
         r == required_parse(q, SubSeq(argv, pos, pos + n - 1))
     IN IF r.ret < 0
        THEN Fail("MissingValue") /\ UNCHANGED <<_required, pos, nreq>>
        ELSE /\ _required' = [_required EXCEPT ![cur][nreq + 1] = r.spec]
             /\ pos' = pos + r.ret
             /\ nreq' = nreq + 1
             /\ UNCHANGED <<pc, err, ret>>
  /\ UNCHANGED <<_optional, _commands, argv, cur, used, parses, call>>

\* the subcommands of c: the root owns those registered, a child owns none
Children(c) == IF c = Root THEN _commands ELSE <<>>

IsChild(c, tok) == \E i \in 1..Len(Children(c)) : Children(c)[i] = tok

\* a non-flag token naming a subcommand, every required spec being satisfied:
\* the rest of the window goes to the child's parse, whose result is final
ParseSubcommand ==
  /\ Parsing
  /\ ~IsFlagToken(argv[pos])
  /\ nreq = Len(_required[cur])
  /\ IsChild(cur, argv[pos])
  /\ cur' = argv[pos]
  /\ nreq' = 0
  /\ pos' = pos + 1
  /\ UNCHANGED <<_optional, _required, _commands, pc, argv, err, ret, used,
                 parses, call>>

ParseUnexpected ==
  /\ Parsing
  /\ ~IsFlagToken(argv[pos])
  /\ nreq = Len(_required[cur])
  /\ ~IsChild(cur, argv[pos])
  /\ Fail("UnexpectedToken")
  /\ UNCHANGED <<_optional, _required, _commands, argv, pos, cur, nreq, used,
                 parses, call>>

\* the window is exhausted
ParseEnd ==
  /\ pc = "parsing"
  /\ pos > Len(argv)
  /\ IF nreq < Len(_required[cur])
     THEN Fail("UnsatisfiedRequired")
     ELSE pc' = "done" /\ ret' = "true" /\ UNCHANGED err
  /\ UNCHANGED <<_optional, _required, _commands, argv, pos, cur, nreq, used,
                 parses, call>>

\* parser::parse(argc, argv) on the tokens a after the program name
parser_parse(a) ==
  /\ pc \in {"build", "done"}
  /\ argv' = a
  /\ pos' = 1
  /\ cur' = Root
  /\ nreq' = 0
  /\ err' = "none"
  /\ ret' = "none"
  /\ pc' = "parsing"
  /\ used' = used + Len(a)
  /\ parses' = parses + 1
  /\ call' = Call("parse", Root, "", <<>>, "")
  /\ UNCHANGED <<_optional, _required, _commands>>

(***************************************************************************)
(* Specifications                                                          *)
(***************************************************************************)
\* SpecReg: every registration call, over all names; optional specs go to
\* the root
NextReg ==
  \/ \E s \in Shorts, l \in Longs : add_opt_flag(Root, s, l)
  \/ \E s \in Shorts, l \in Longs : add_opt_value(Root, s, l)
  \/ \E s \in Shorts, l \in Longs : add_opt_list(Root, s, l)
  \/ \E s \in Shorts, l \in Longs : add_req_list_flag(Root, s, l)
  \/ \E c \in Cmds, n \in Names : AddRequiredValue(c, n)
  \/ \E c \in Cmds, n \in Names : AddRequiredList(c, n)
  \/ \E c \in Cmds, n \in Names : add_req_value(c, n)
  \/ \E c \in Cmds, n \in Names : add_req_list(c, n)
  \/ \E n \in CmdNames : add_command(n)

SpecReg == Init /\ [][NextReg]_vars

\* Spec: a tree is built by the registration calls below, then one command
\* line is parsed
NextBuild ==
  \/ add_opt_flag(Root, "v", LongVb)
  \/ add_opt_value(Root, "o", LongOt)
  \/ add_opt_list(Root, "o", LongOt)
  \/ \E n \in Names : AddRequiredValue(Root, n)
  \/ \E n \in Names : AddRequiredList(Root, n)
  \/ \E n \in Names : add_req_value(Root, n)
  \/ \E n \in Names : add_req_list(Root, n)
  \/ add_command(Run)
  \/ AddRequiredValue(Run, "x")
  \/ AddRequiredList(Run, "x")

ParseOnce ==
  /\ pc = "build"
  /\ \E a \in SeqsUpTo(Tokens, MaxArgs) : parser_parse(a)

Next ==
  \/ NextBuild
  \/ ParseOnce
  \/ ParseLong
  \/ ParseShort
  \/ ParsePositional
  \/ ParseSubcommand
  \/ ParseUnexpected
  \/ ParseEnd

Spec == Init /\ [][Next]_vars

\* SpecRe: a tree of value and list specs is parsed again without being reset
NextBuildRe ==
  \/ add_opt_value(Root, "o", LongOt)
  \/ add_opt_list(Root, "o", LongOt)
  \/ AddRequiredValue(Root, "x")
  \/ AddRequiredList(Root, "x")

ParseAgain ==
  /\ pc \in {"build", "done"}
  /\ parses < MaxParses
  /\ \E a \in SeqsUpTo(ReTokens, MaxReArgs - used) : parser_parse(a)

NextRe ==
  \/ NextBuildRe
  \/ ParseAgain
  \/ ParseLong
  \/ ParseShort
  \/ ParsePositional
  \/ ParseUnexpected
  \/ ParseEnd

SpecRe == Init /\ [][NextRe]_vars

(***************************************************************************)
(* Properties                                                              *)
(***************************************************************************)
IsPrefix(a, b) == Len(a) <= Len(b) /\ SubSeq(b, 1, Len(a)) = a

\* tok is a dash followed by one or more copies of the character ch
AllCopies(tok, ch) == IsShort(tok) /\ \A k \in 2..Len(tok) : tok[k] = ch

\* number of characters after the dash, summed over the tokens of av
RECURSIVE GroupChars(_)
GroupChars(av) ==
  IF av = <<>> THEN 0 ELSE (Len(Head(av)) - 1) + GroupChars(Tail(av))

\* the optional spec of command c with short flag ch is a flag
HasFlag(c, ch) ==
  \E i \in 1..Len(_optional[c]) :
    _optional[c][i].short = ch /\ _optional[c][i].kind = "flag"

FlagOf(c, ch) == _optional[c][FindShort(_optional[c], ch)]

\* a required spec holds what a parse stored in it
Stored(q) == IF q.kind = "value" THEN get_value(q) # <<>> ELSE get_values(q) # <<>>

\* j is the index of the first flag token of argv at or after index from
FirstFlagAt(from, j) ==
  /\ j \in from..Len(argv)
  /\ IsFlagToken(argv[j])
  /\ \A i \in from..(j - 1) : ~IsFlagToken(argv[i])

(***************************************************************************)
(* C1                                                                      *)
(***************************************************************************)
C1_Done ==
  \A ch \in Shorts :
    ( /\ pc = "done"
      /\ argv # <<>>
      /\ \A i \in 1..Len(argv) : AllCopies(argv[i], ch)
      /\ HasFlag(Root, ch) )
    => /\ pos = Len(argv) + 1
       /\ cnt(FlagOf(Root, ch)) = GroupChars(argv)
       /\ is_set(FlagOf(Root, ch))
       /\ _required[Root] = <<>> => ret = "true" /\ err = "none"
       /\ _required[Root] # <<>> => err = "UnsatisfiedRequired"

C1_Step ==
  \A ch \in Shorts :
    (Parsing /\ AllCopies(argv[pos], ch) /\ HasFlag(cur, ch))
    => /\ pos' = pos + 1
       /\ pc' = "parsing"
       /\ err' = "none"
       /\ cnt(FlagOf(cur, ch)') = cnt(FlagOf(cur, ch)) + (Len(argv[pos]) - 1)
       /\ is_set(FlagOf(cur, ch)')

\* C1: a token made of a dash and n copies of a registered flag's short
\* character counts the flag n times, sets it, signals no error and moves the
\* window by exactly one token; a command line made only of such tokens is
\* consumed whole with cnt() equal to the total number of copies, however they
\* are grouped into tokens, and succeeds (the only failure left is a required
\* spec of the command that no token of such a line can satisfy).
C1_GroupedFlagCount == [](C1_Done) /\ [][C1_Step]_vars

C1_Witness ==
  /\ pc = "done"
  /\ argv = <<TokVV, TokV>>
  /\ HasFlag(Root, "v")
  /\ cnt(FlagOf(Root, "v")) = 3
  /\ is_set(FlagOf(Root, "v"))
  /\ ret = "true"

(***************************************************************************)
(* C2                                                                      *)
(***************************************************************************)
OptApis == {"add_opt_flag", "add_opt_value", "add_opt_list", "add_req_list_flag"}
ReqApis == {"add_req_value", "add_req_list"}

Unique(c) ==
  /\ \A i, j \in 1..Len(_optional[c]) :
       i # j => /\ _optional[c][i].short # _optional[c][j].short
                /\ _optional[c][i].long # _optional[c][j].long
  /\ \A i, j \in 1..Len(_required[c]) :
       i # j => _required[c][i].name # _required[c][j].name

\* the registration call k collides with a spec already registered
Collides(k) ==
  \/ /\ k.api \in OptApis
     /\ \E i \in 1..Len(_optional[k.cmd]) :
          \/ _optional[k.cmd][i].short = k.short
          \/ _optional[k.cmd][i].long = k.long
  \/ /\ k.api \in ReqApis
     /\ \E i \in 1..Len(_required[k.cmd]) : _required[k.cmd][i].name = k.name

C2_Step ==
  (pc = "build" /\ call'.api \in OptApis \cup ReqApis)
  => IF Collides(call')
     THEN /\ pc' = "aborted"
          /\ err' = "DuplicateArgument"
          /\ parses' = 0
          /\ _optional' = _optional
          /\ _required' = _required
          /\ _commands' = _commands
     ELSE /\ pc' = "build"
          /\ Len(_optional'[call'.cmd]) + Len(_required'[call'.cmd])
               = Len(_optional[call'.cmd]) + Len(_required[call'.cmd]) + 1

\* C2 as claimed: no two optional specs of a command share a short or a long
\* flag and no two required specs share a name; every add_opt_* and add_req_*
\* call registers its spec, unless it collides with a registered spec: then it
\* throws during construction, before any parse, and leaves the registries as
\* they were.
C2_NoDuplicates == [](\A c \in Cmds : Unique(c)) /\ [][C2_Step]_vars

(***************************************************************************)
(* C3                                                                      *)
(***************************************************************************)
\* the next positional step fills a required list
ListNext ==
  /\ Parsing
  /\ ~IsFlagToken(argv[pos])
  /\ nreq < Len(_required[cur])
  /\ _required[cur][nreq + 1].kind = "list"

C3_Step ==
  /\ ListNext =>
       \A j \in (pos + 1)..Len(argv) :
         FirstFlagAt(pos, j) =>
           /\ get_values(_required'[cur][nreq + 1])
                = get_values(_required[cur][nreq + 1]) \o SubSeq(argv, pos, j - 1)
           /\ pos' = j
           /\ pc' = "parsing"
           /\ _optional' = _optional
  /\ (Parsing /\ IsFlagToken(argv[pos])) => _required' = _required

C3_Done ==
  ( /\ pc = "done"
    /\ argv # <<>>
    /\ ~IsFlagToken(argv[1])
    /\ _required[Root] # <<>>
    /\ _required[Root][1].kind = "list" )
  => \A j \in 2..Len(argv) :
       FirstFlagAt(1, j) => get_values(_required[Root][1]) = SubSeq(argv, 1, j - 1)

\* C3: a required list that is the first unsatisfied required spec, offered a
\* window of k >= 1 non-flag tokens followed by a flag token, receives exactly
\* those k tokens in input order; the flag token is left in the window and is
\* handled as an optional, never stored in a required spec.
C3_ListStopsAtFlag == [](C3_Done) /\ [][C3_Step]_vars

C3_Witness ==
  /\ pc = "done"
  /\ ret = "true"
  /\ argv = <<TokA, Run, TokV>>
  /\ Len(_required[Root]) = 1
  /\ _required[Root][1].kind = "list"
  /\ get_values(_required[Root][1]) = <<TokA, Run>>
  /\ HasFlag(Root, "v")
  /\ cnt(FlagOf(Root, "v")) = 1

(***************************************************************************)
(* C4                                                                      *)
(***************************************************************************)
Registered(n) == \E i \in 1..Len(_commands) : _commands[i] = n

\* the root has no positional slot and the child Run requires one value
ChildNeedsValue ==
  /\ _required[Root] = <<>>
  /\ Registered(Run)
  /\ Len(_required[Run]) = 1
  /\ _required[Run][1].kind = "value"

C4_Done ==
  pc = "done" =>
    /\ (ChildNeedsValue /\ Len(argv) = 2 /\ argv[1] = Run /\ ~IsFlagToken(argv[2]))
         => /\ ret = "true"
            /\ cur = Run
            /\ get_value(_required[Run][1]) = <<argv[2]>>
    /\ ( /\ _required[Root] = <<>>
         /\ argv # <<>>
         /\ ~IsFlagToken(argv[1])
         /\ ~Registered(argv[1]) )
         => ret = "false" /\ err = "UnexpectedToken" /\ cur = Root
    /\ (ChildNeedsValue /\ argv = <<Run>>)
         => ret = "false" /\ err = "UnsatisfiedRequired" /\ cur = Run

C4_Step ==
  /\ (pc = "parsing" /\ cur # Root)
       => /\ cur' = cur
          /\ _optional'[Root] = _optional[Root]
          /\ _required'[Root] = _required[Root]
  /\ (pc = "parsing" /\ cur' # cur)
       => /\ cur = Root
          /\ cur' = argv[pos]
          /\ Registered(argv[pos])
          /\ pos' = pos + 1
          /\ _optional' = _optional
          /\ _required' = _required

\* C4: with no positional slot on the root and a subcommand that requires one
\* value, [child, t] succeeds and binds the value to t, a first non-flag token
\* that names no subcommand fails with UnexpectedToken, and [child] fails with
\* UnsatisfiedRequired in the child; after the subcommand name every token is
\* the child's and the root's specs are not touched again.
C4_SubcommandDescent == [](C4_Done) /\ [][C4_Step]_vars

C4_Witness ==
  /\ pc = "done"
  /\ ChildNeedsValue
  /\ argv = <<Run, TokA>>
  /\ ret = "true"
  /\ cur = Run
  /\ get_value(_required[Run][1]) = <<TokA>>

(***************************************************************************)
(* C5                                                                      *)
(***************************************************************************)
AllStored(c) == \A i \in 1..Len(_required[c]) : Stored(_required[c][i])

\* C5: parser::parse returns true exactly when the window is exhausted, no
\* error was signalled and every required spec of the command has been
\* satisfied and holds what it consumed; a command with a required spec parsed
\* on no token fails with UnsatisfiedRequired.
C5_SuccessIffSatisfied ==
  pc = "done" =>
    /\ ret \in {"true", "false"}
    /\ (ret = "false") <=> (err # "none")
    /\ (ret = "true") <=>
         /\ pos > Len(argv)
         /\ err = "none"
         /\ nreq = Len(_required[cur])
         /\ AllStored(cur)
         /\ AllStored(Root)
    /\ (argv = <<>> /\ _required[Root] # <<>>)
         => ret = "false" /\ err = "UnsatisfiedRequired"

C5_Witness ==
  /\ pc = "done"
  /\ argv = <<>>
  /\ _required[Root] # <<>>
  /\ ret = "false"
  /\ err = "UnsatisfiedRequired"

(***************************************************************************)
(* C6                                                                      *)
(***************************************************************************)
\* the token at pos is the long flag, or the single short flag, of the
\* optional value spec i of cur
ValueFlagAt(i) ==
  /\ Parsing
  /\ i \in 1..Len(_optional[cur])
  /\ _optional[cur][i].kind = "value"
  /\ \/ /\ IsLong(argv[pos])
        /\ SubSeq(argv[pos], 3, Len(argv[pos])) = _optional[cur][i].long
     \/ /\ IsShort(argv[pos])
        /\ Len(argv[pos]) = 2
        /\ argv[pos][2] = _optional[cur][i].short

C6_Step ==
  \A i \in 1..Len(_optional[cur]) :
    ValueFlagAt(i) =>
      IF pos < Len(argv)
      THEN /\ get_value(_optional'[cur][i]) = <<argv[pos + 1]>>
           /\ pos' = pos + 2
           /\ pc' = "parsing"
           /\ err' = "none"
      ELSE /\ pc' = "done"
           /\ ret' = "false"
           /\ err' = "MissingValue"
           /\ get_value(_optional'[cur][i]) = get_value(_optional[cur][i])

C6_Alone ==
  \A i \in 1..Len(_optional[Root]) :
    _optional[Root][i].kind = "value" =>
      /\ optional_value_parse(_optional[Root][i], <<>>).ret = -1
      /\ ( /\ pc = "done"
           /\ Len(argv) = 1
           /\ \/ argv[1] = <<"-", "-">> \o _optional[Root][i].long
              \/ argv[1] = <<"-", _optional[Root][i].short>> )
         => /\ ret = "false"
            /\ err = "MissingValue"
            /\ get_value(_optional[Root][i]) = <<>>

\* C6: an optional value spec matched by its long flag or its single short
\* flag consumes exactly the next token when there is one, holds that token's
\* value and moves the window by 2; when the flag is the last token its parse
\* returns -1, the value is left as it was (absent when the flag stands alone)
\* and the parse fails with MissingValue.
C6_ValueOrMissing == [](C6_Alone) /\ [][C6_Step]_vars

C6_Witness ==
  /\ pc = "done"
  /\ argv = <<TokOt>>
  /\ err = "MissingValue"
  /\ ret = "false"
  /\ \E i \in 1..Len(_optional[Root]) :
       /\ _optional[Root][i].kind = "value"
       /\ _optional[Root][i].long = LongOt
       /\ get_value(_optional[Root][i]) = <<>>

(***************************************************************************)
(* C7                                                                      *)
(***************************************************************************)
C7_Step ==
  \* declaration appends: the vector order is the declared order
  /\ \A c \in Cmds :
       (pc = "build" /\ _required'[c] # _required[c])
         => /\ Len(_required'[c]) = Len(_required[c]) + 1
            /\ SubSeq(_required'[c], 1, Len(_required[c])) = _required[c]
            /\ _required'[c][Len(_required'[c])].name = call'.name
  \* a parse step fills the first unsatisfied spec and no other
  /\ (pc = "parsing" /\ _required' # _required)
       => /\ nreq < Len(_required[cur])
          /\ nreq' = nreq + 1
          /\ \A c \in Cmds : \A i \in 1..Len(_required[c]) :
               (c # cur \/ i # nreq + 1) => _required'[c][i] = _required[c][i]
          /\ \A i \in 1..nreq : Stored(_required[cur][i])
  \* descent needs every required spec satisfied
  /\ (pc = "parsing" /\ cur' # cur) => nreq = Len(_required[cur])
  \* a subcommand name met earlier is a positional value
  /\ ( /\ Parsing
       /\ nreq < Len(_required[cur])
       /\ IsChild(cur, argv[pos]) )
       => /\ cur' = cur
          /\ pc' = "parsing"
          /\ nreq' = nreq + 1
          /\ IF _required[cur][nreq + 1].kind = "value"
             THEN get_value(_required'[cur][nreq + 1]) = <<argv[pos]>>
             ELSE IsPrefix(get_values(_required[cur][nreq + 1]) \o <<argv[pos]>>,
                           get_values(_required'[cur][nreq + 1]))

\* C7: required specs are filled strictly in declared order, one per step, and
\* a non-flag token is matched against the subcommand names only when every
\* required spec is satisfied; before that a token equal to a subcommand name
\* becomes the value of the first unsatisfied required spec.
C7_PositionalsBeforeSubcommands == [][C7_Step]_vars

C7_Witness ==
  /\ pc = "done"
  /\ Registered(Run)
  /\ argv = <<Run, Run, TokA>>
  /\ Len(_required[Root]) = 1
  /\ get_value(_required[Root][1]) = <<Run>>
  /\ cur = Run
  /\ ret = "true"

(***************************************************************************)
(* C8                                                                      *)
(***************************************************************************)
Known(ch) == \E i \in 1..Len(_optional[cur]) : _optional[cur][i].short = ch

TakesTokens(ch) ==
  \E i \in 1..Len(_optional[cur]) :
    _optional[cur][i].short = ch /\ _optional[cur][i].kind \in {"value", "list"}

C8_Step ==
  (Parsing /\ IsShort(argv[pos])) =>
    LET chars == Tail(argv[pos])
    IN /\ (Len(chars) >= 2 /\ \E k \in 1..Len(chars) : TakesTokens(chars[k]))
            => /\ pc' = "done"
               /\ ret' = "false"
               /\ err' \in {"AmbiguousShortGroup", "UnknownOption"}
               /\ (\A k \in 1..Len(chars) : Known(chars[k]))
                    => err' = "AmbiguousShortGroup"
               /\ _optional' = _optional
               /\ pos' = pos
       /\ (\E k \in 1..Len(chars) : ~Known(chars[k]))
            => /\ pc' = "done"
               /\ ret' = "false"
               /\ err' = "UnknownOption"
               /\ _optional' = _optional
       /\ (pos' > pos + 1) => Len(chars) = 1

\* C8: a short token of two or more characters one of which is a value or
\* list spec's short flag fails the parse, with AmbiguousShortGroup when every
\* character is registered; a group with an unregistered character fails with
\* UnknownOption; only a one-character short token consumes following tokens.
C8_NoValueInGroup == [][C8_Step]_vars

C8_Witness ==
  /\ pc = "done"
  /\ err = "AmbiguousShortGroup"
  /\ ret = "false"
  /\ pos <= Len(argv)
  /\ argv[pos] = TokVO
  /\ HasFlag(cur, "v")
  /\ TakesTokens("o")

(***************************************************************************)
(* C9                                                                      *)
(***************************************************************************)
C9_Step ==
  /\ \A c \in Cmds : \A i \in 1..Len(_optional[c]) :
       LET o == _optional[c][i]
           n == _optional'[c][i]
       IN pc # "build" =>
            /\ IsPrefix(get_values(o), get_values(n))
            /\ get_values(n) # get_values(o)
                 => /\ o.kind = "list"
                    /\ get_values(n) = get_values(o) \o SubSeq(argv, pos + 1, pos' - 1)
                    /\ pos' > pos + 1
            /\ get_value(n) # get_value(o)
                 => o.kind = "value" /\ get_value(n) = <<argv[pos + 1]>>
            /\ Len(get_value(n)) <= 1
  /\ \A c \in Cmds : \A i \in 1..Len(_required[c]) :
       LET q == _required[c][i]
           n == _required'[c][i]
       IN pc # "build" =>
            /\ IsPrefix(get_values(q), get_values(n))
            /\ get_values(n) # get_values(q)
                 => /\ q.kind = "list"
                    /\ get_values(n) = get_values(q) \o SubSeq(argv, pos, pos' - 1)
                    /\ pos' > pos
            /\ get_value(n) # get_value(q)
                 => q.kind = "value" /\ get_value(n) = <<argv[pos]>>
            /\ Len(get_value(n)) <= 1

\* C9: a list spec is never reset: each call of its parse appends the tokens
\* of its window, in order, after the values it holds, within one command line
\* and from one parser::parse call to the next; a value spec holds the last
\* assigned value alone.
C9_ListsAccumulate == [][C9_Step]_vars

\* a second parser::parse has appended to what the first one stored
C9_Witness ==
  /\ pc = "done"
  /\ parses = 2
  /\ argv = <<TokO, Run>>
  /\ \E i \in 1..Len(_optional[Root]) :
       /\ _optional[Root][i].kind = "list"
       /\ get_values(_optional[Root][i]) = <<TokA, Run>>

(***************************************************************************)
(* C10                                                                     *)
(***************************************************************************)
RequiredLists(c) == {i \in 1..Len(_required[c]) : _required[c][i].kind = "list"}

\* C10 as claimed: a second unbounded required list is refused at registration
\* time, so no command ever holds two of them.
C10_SecondListRefused == \A c \in Cmds : Cardinality(RequiredLists(c)) <= 1

C10_Step ==
  /\ (pc = "build" /\ call'.api = "add_required_arg<required_list>")
       => IF \E i \in 1..Len(_required[call'.cmd]) :
               _required[call'.cmd][i].name = call'.name
          THEN pc' = "aborted" /\ _required' = _required
          ELSE /\ pc' = "build"
               /\ _required'[call'.cmd]
                    = Append(_required[call'.cmd], NewRequired("list", call'.name))
  /\ ListNext
       => /\ pc' = "parsing"
          /\ pos' > pos
          /\ \A i \in pos..(pos' - 1) : ~IsFlagToken(argv[i])
          /\ pos' > Len(argv) \/ IsFlagToken(argv[pos'])
          /\ get_values(_required'[cur][nreq + 1])
               = get_values(_required[cur][nreq + 1]) \o SubSeq(argv, pos, pos' - 1)
          /\ \A i \in 1..Len(_required[cur]) :
               i # nreq + 1 => _required'[cur][i] = _required[cur][i]

\* C10 amended: add_required_arg, to which add_req_list forwards, refuses a
\* name that is already registered and nothing else: a second unbounded
\* required list with a new name is accepted and appended; at parse time a
\* required list takes every token of the run of non-flag tokens it is
\* offered, so a following list gets none of that run.
C10_SecondListAccepted == [][C10_Step]_vars

C10_Witness ==
  /\ pc = "done"
  /\ argv = <<TokA, Run>>
  /\ Len(_required[Root]) = 2
  /\ RequiredLists(Root) = {1, 2}
  /\ get_values(_required[Root][1]) = <<TokA, Run>>
  /\ get_values(_required[Root][2]) = <<>>
  /\ err = "UnsatisfiedRequired"

====
